---- MODULE Spec2Model ----
(***************************************************************************)
(* Projectile motion simulator (src/main.py): the kinematics engine        *)
(* ProjectilePhysics and the two handlers of the ProjectileSimulator       *)
(* window, on_simulate and on_save_graph.                                  *)
(*                                                                         *)
(* Python floats are modelled as binary floating-point numbers <<m, e>>    *)
(* (value m * 2^e) with a mantissa of Precision bits, an unbounded         *)
(* exponent and round-to-nearest-even after every operation, the IEEE-754  *)
(* rule.  A double has 53 mantissa bits; TLC's integers leave room for 12. *)
(* Text fields hold a decimal numeral, unparsable text, or nothing; the    *)
(* literals "nan" and "inf", which float() also accepts, are not modelled. *)
(***************************************************************************)
EXTENDS Integers, Sequences, FiniteSets, TLC

(***************************************************************************)
(* Bounds of the model.                                                    *)
(***************************************************************************)
\* mantissa bits of a modelled float
Precision == 12
\* launch speeds are the multiples of 3 m/s up to 3 * MaxSpeedStep
MaxSpeedStep == 2
\* launch heights are the multiples of 2 m up to 2 * MaxHeightStep
MaxHeightStep == 1
\* target coordinates are the whole metres 0 .. MaxTarget
MaxTarget == 2

(***************************************************************************)
(* Floating point.                                                         *)
(***************************************************************************)
Zero == <<0, 0>>

Pow2(k) == 2 ^ k

AbsInt(n) == IF n < 0 THEN 0 - n ELSE n

SignInt(n) == IF n < 0 THEN 0 - 1 ELSE 1

\* number of bits of a natural number below 2^31
BitLen(n) ==
  IF n < 65536
  THEN IF n < 256
       THEN IF n < 16
            THEN IF n < 4 THEN (IF n < 2 THEN n ELSE 2)
                          ELSE (IF n < 8 THEN 3 ELSE 4)
            ELSE IF n < 64 THEN (IF n < 32 THEN 5 ELSE 6)
                           ELSE (IF n < 128 THEN 7 ELSE 8)
       ELSE IF n < 4096
            THEN IF n < 1024 THEN (IF n < 512 THEN 9 ELSE 10)
                             ELSE (IF n < 2048 THEN 11 ELSE 12)
            ELSE IF n < 16384 THEN (IF n < 8192 THEN 13 ELSE 14)
                              ELSE (IF n < 32768 THEN 15 ELSE 16)
  ELSE IF n < 16777216
       THEN IF n < 1048576
            THEN IF n < 262144 THEN (IF n < 131072 THEN 17 ELSE 18)
                               ELSE (IF n < 524288 THEN 19 ELSE 20)
            ELSE IF n < 4194304 THEN (IF n < 2097152 THEN 21 ELSE 22)
                                ELSE (IF n < 8388608 THEN 23 ELSE 24)
       ELSE IF n < 268435456
            THEN IF n < 67108864 THEN (IF n < 33554432 THEN 25 ELSE 26)
                                 ELSE (IF n < 134217728 THEN 27 ELSE 28)
            ELSE IF n < 1073741824 THEN (IF n < 536870912 THEN 29 ELSE 30)
                                   ELSE 31

\* a / d to the nearest integer, ties to the even one
RoundHalfEven(a, d) ==
  LET q == a \div d
      r == a % d
  IN  IF 2 * r > d \/ (2 * r = d /\ q % 2 = 1) THEN q + 1 ELSE q

\* s * q * 2^e for a rounded mantissa q, which may have reached 2^Precision
Carry(s, q, e) ==
  IF q = Pow2(Precision) THEN <<s * Pow2(Precision - 1), e + 1>> ELSE <<s * q, e>>

\* n * 2^e with the mantissa n cut or padded by k bits
Shift(n, e, k) ==
  IF k <= 0 THEN <<n * Pow2(0 - k), e + k>>
  ELSE Carry(SignInt(n), RoundHalfEven(AbsInt(n), Pow2(k)), e + k)

\* the float nearest to n * 2^e, ties to the even mantissa
Norm(n, e) == IF n = 0 THEN Zero ELSE Shift(n, e, BitLen(AbsInt(n)) - Precision)

\* int -> float
FromInt(n) == Norm(n, 0)

Neg(a) == <<0 - a[1], a[2]>>

Abs(a) == <<AbsInt(a[1]), a[2]>>

Mul(a, b) == Norm(a[1] * b[1], a[2] + b[2])

\* hi + lo for nonzero floats, the exponent of hi the larger: lo cannot
\* change hi when it lies Precision + 2 binary places below
Align(hi, lo) ==
  IF hi[2] - lo[2] >= Precision + 2 THEN hi
  ELSE Norm(hi[1] * Pow2(hi[2] - lo[2]) + lo[1], lo[2])

Add(a, b) ==
  IF a[1] = 0 THEN b
  ELSE IF b[1] = 0 THEN a
  ELSE IF a[2] >= b[2] THEN Align(a, b) ELSE Align(b, a)

Sub(a, b) == Add(a, Neg(b))

\* a / b for b # 0: the quotient to Precision + 2 bits and a sticky bit
Div(a, b) ==
  IF a[1] = 0 THEN Zero
  ELSE LET n == AbsInt(a[1]) * Pow2(Precision + 2)
           m == AbsInt(b[1])
           q == n \div m
           st == IF n % m = 0 THEN 0 ELSE 1
           s == IF (a[1] < 0) = (b[1] < 0) THEN 1 ELSE 0 - 1
       IN  Norm(s * (2 * q + st), a[2] - b[2] - (Precision + 2) - 1)

\* one Newton step towards the square root of n from x >= floor(sqrt(n))
NewtonStep(n, x) == LET y == (x + n \div x) \div 2 IN IF y < x THEN y ELSE x

\* floor of the square root of n < 2^31: six steps from a power of two that
\* is at most twice the root
ISqrt(n) ==
  IF n = 0 THEN 0
  ELSE LET x0 == Pow2((BitLen(n) + 1) \div 2)
       IN  NewtonStep(n, NewtonStep(n, NewtonStep(n,
             NewtonStep(n, NewtonStep(n, NewtonStep(n, x0))))))

\* the root r = ISqrt(n) of n * 4^e, with a sticky bit when it is not exact
Sticky(n, r, e) == Norm(2 * r + (IF r * r = n THEN 0 ELSE 1), e - 1)

\* the left shift that gives the mantissa Precision + 2 or Precision + 3 more
\* bits and leaves an even exponent
SqrtShift(e) == IF (e - (Precision + 2)) % 2 = 0 THEN Precision + 2 ELSE Precision + 3

SqrtScaled(n, e) == Sticky(n, ISqrt(n), e \div 2)

\* math.sqrt for a >= 0
Sqrt(a) ==
  IF a[1] = 0 THEN Zero
  ELSE SqrtScaled(a[1] * Pow2(SqrtShift(a[2])), a[2] - SqrtShift(a[2]))

\* a < b
Lt(a, b) ==
  IF a[1] = 0 THEN b[1] > 0
  ELSE IF b[1] = 0 THEN a[1] < 0
  ELSE IF (a[1] < 0) # (b[1] < 0) THEN a[1] < 0
  ELSE IF a[1] > 0
       THEN a[2] < b[2] \/ (a[2] = b[2] /\ a[1] < b[1])
       ELSE a[2] > b[2] \/ (a[2] = b[2] /\ a[1] < b[1])

Le(a, b) == a = b \/ Lt(a, b)

\* the next float above a >= 0
NextUp(a) == IF a[1] = 0 THEN <<Pow2(Precision - 1), 0 - 200>> ELSE Norm(a[1] + 1, a[2])

(***************************************************************************)
(* ProjectilePhysics.                                                      *)
(***************************************************************************)
\* launch angles (degrees) whose cosine and sine are tabulated
Angles == {0, 30, 45, 60, 90}

\* math.cos(math.radians(n)) and math.sin(math.radians(n)) as the interpreter
\* returns them, to 24 bits: <<mantissa, exponent>>.  cos of 90 degrees is
\* 6.1e-17, not 0.
CosSin(n) ==
  CASE n = 0  -> <<(<<8388608, 0 - 23>>),  (<<0, 0>>)>>
    [] n = 30 -> <<(<<14529495, 0 - 24>>), (<<8388608, 0 - 24>>)>>
    [] n = 45 -> <<(<<11863283, 0 - 24>>), (<<11863283, 0 - 24>>)>>
    [] n = 60 -> <<(<<8388608, 0 - 24>>),  (<<14529495, 0 - 24>>)>>
    [] n = 90 -> <<(<<9253170, 0 - 77>>),  (<<8388608, 0 - 23>>)>>

\* the whole number of degrees a float stands for
Degrees(a) == CHOOSE n \in Angles : FromInt(n) = a

\* a tabulated value rounded to the precision of the model
Rounded(c) == Norm(c[1], c[2])

cos_radians(a) == Rounded(CosSin(Degrees(a))[1])

sin_radians(a) == Rounded(CosSin(Degrees(a))[2])

GRAVITY == Div(FromInt(981), FromInt(100))

Half == Div(FromInt(1), FromInt(2))

\* num of np.linspace in calculate
NumSamples == 500

\* np.linspace(0, stop, num): arange(num) * step, the last entry set to stop;
\* arange(num) / (num - 1) * stop when the step is zero
linspace(stop, num) ==
  LET div  == FromInt(num - 1)
      step == Div(stop, div)
  IN  [i \in 1..num |->
         IF i = num THEN stop
         ELSE IF step # Zero THEN Mul(FromInt(i - 1), step)
         ELSE Mul(Div(FromInt(i - 1), div), stop)]

\* a max_height below the launch height: the rise subtracted
max_height_subtracted(h0, vy) == Sub(h0, Div(Mul(vy, vy), Mul(FromInt(2), GRAVITY)))

\* self.max_height = h0 + vy**2 / (2*g)
max_height(h0, vy) == Add(h0, Div(Mul(vy, vy), Mul(FromInt(2), GRAVITY)))

calculate(v0, angle_deg, h0) ==
  LET vx == Mul(v0, cos_radians(angle_deg))
      vy == Mul(v0, sin_radians(angle_deg))
      discrim  == Add(Mul(vy, vy), Mul(Mul(FromInt(2), GRAVITY), h0))
      t_flight == Div(Add(vy, Sqrt(discrim)), GRAVITY)
      halfg    == Mul(Half, GRAVITY)
      t        == linspace(t_flight, NumSamples)
  IN  [v0 |-> v0, angle_deg |-> angle_deg, h0 |-> h0, air_resistance |-> FALSE,
       vx |-> vx, vy |-> vy, t_flight |-> t_flight,
       max_height |-> max_height(h0, vy),
       range |-> Mul(vx, t_flight),
       x_points |-> [i \in 1..NumSamples |-> Mul(vx, t[i])],
       y_points |-> [i \in 1..NumSamples |->
                       Sub(Add(h0, Mul(vy, t[i])), Mul(halfg, Mul(t[i], t[i])))]]

\* a speed whose rise is lost in the rounding of a height of 2 m: 1/64 m/s
SlowSpeed == Div(FromInt(1), FromInt(64))

\* launch parameters the model draws from
Speeds == {FromInt(3 * k) : k \in 0..MaxSpeedStep} \cup {SlowSpeed}

Heights == {FromInt(2 * k) : k \in 0..MaxHeightStep}

LaunchAngles == {FromInt(n) : n \in Angles}

ValidLaunches == Speeds \X LaunchAngles \X Heights

\* calculate is a function of the launch parameters: each trajectory is
\* computed once
Trajectories == {<<l, calculate(l[1], l[2], l[3])>> : l \in ValidLaunches}

\* ProjectilePhysics(v0, angle_deg, h0): __init__ stores the arguments and
\* calls calculate
ProjectilePhysics(v0, angle_deg, h0) ==
  (CHOOSE e \in Trajectories : e[1] = <<v0, angle_deg, h0>>)[2]

\* <<a, b, c>> of a t^2 + b t + c = 0, the times at height y_target
quadratic(self, y_target) ==
  <<Mul(Neg(Half), GRAVITY), self.vy, Sub(self.h0, y_target)>>

\* disc = b**2 - 4*a*c
discriminant(q) == Sub(Mul(q[2], q[2]), Mul(Mul(FromInt(4), q[1]), q[3]))

\* t1 = (-b + sqrt(disc)) / (2*a)
root_plus(q, disc) == Div(Add(Neg(q[2]), Sqrt(disc)), Mul(FromInt(2), q[1]))

\* t2 = (-b - sqrt(disc)) / (2*a)
root_minus(q, disc) == Div(Sub(Neg(q[2]), Sqrt(disc)), Mul(FromInt(2), q[1]))

\* a filter that forgets the lower end of the flight
in_flight_unsigned(self, t) == IF Le(t, self.t_flight) THEN <<t>> ELSE <<>>

\* [t for t in (t,) if 0 <= t <= self.t_flight]
in_flight(self, t) == IF Le(Zero, t) /\ Le(t, self.t_flight) THEN <<t>> ELSE <<>>

\* get_times_for_y once a, b, c and disc are computed
solve(self, q, disc) ==
  IF Lt(disc, Zero) THEN <<>>
  ELSE in_flight(self, root_plus(q, disc)) \o in_flight(self, root_minus(q, disc))

get_times_for_y(self, y_target) ==
  solve(self, quadratic(self, y_target), discriminant(quadratic(self, y_target)))

\* tolerance of is_target_reachable
HitTolerance == Div(FromInt(1), FromInt(100))

RECURSIVE last_hit(_, _, _)
\* a loop that keeps the last accepted time
last_hit(self, times, target) ==
  IF times = <<>> THEN <<FALSE, <<>>>>
  ELSE LET t == times[Len(times)]
           xt == Mul(self.vx, t)
       IN  IF Lt(Abs(Sub(xt, target[1])), HitTolerance)
           THEN <<TRUE, <<t, xt, target[2]>>>>
           ELSE last_hit(self, SubSeq(times, 1, Len(times) - 1), target)

RECURSIVE first_hit(_, _, _)
\* the loop of is_target_reachable over times: <<TRUE, <<t, x, y>>>> for the
\* first accepted time, <<FALSE, <<>>>> when none is accepted
first_hit(self, times, target) ==
  IF times = <<>> THEN <<FALSE, <<>>>>
  ELSE LET t == Head(times)
           xt == Mul(self.vx, t)
       IN  IF Lt(Abs(Sub(xt, target[1])), HitTolerance)
           THEN <<TRUE, <<t, xt, target[2]>>>>
           ELSE first_hit(self, Tail(times), target)

is_target_reachable(self, x_target, y_target) ==
  first_hit(self, get_times_for_y(self, y_target), <<x_target, y_target>>)

\* target points the model queries: the corners of the square 0 .. MaxTarget
TargetCoords == {Zero, FromInt(MaxTarget)}

\* np.sqrt((x_points - x_target)**2 + (y_points - y_target)**2)
sample_distances(x_points, y_points, x_target, y_target) ==
  [i \in 1..NumSamples |->
     LET dx == Sub(x_points[i], x_target)
         dy == Sub(y_points[i], y_target)
     IN  Sqrt(Add(Mul(dx, dx), Mul(dy, dy)))]

\* the distances are a function of the launch and the target: each array is
\* computed once
distances_of(self, x_target, y_target) ==
  sample_distances(self.x_points, self.y_points, x_target, y_target) \o <<>>

Distances ==
  {<<q, distances_of(ProjectilePhysics(q[1][1], q[1][2], q[1][3]), q[2], q[3])>> :
     q \in ValidLaunches \X TargetCoords \X TargetCoords}

\* the array distances of get_closest_point_to
distances_to(self, x_target, y_target) ==
  (CHOOSE e \in Distances :
     e[1] = <<(<<self.v0, self.angle_deg, self.h0>>), x_target, y_target>>)[2]

RECURSIVE argmin_range(_, _, _)
\* the first index of the least entry of d[lo..hi]
argmin_range(d, lo, hi) ==
  IF lo = hi THEN lo
  ELSE LET mid == (lo + hi) \div 2
           l == argmin_range(d, lo, mid)
           r == argmin_range(d, mid + 1, hi)
       IN  IF Lt(d[r], d[l]) THEN r ELSE l

RECURSIVE argmax_range(_, _, _)
argmax_range(d, lo, hi) ==
  IF lo = hi THEN lo
  ELSE LET mid == (lo + hi) \div 2
           l == argmax_range(d, lo, mid)
           r == argmax_range(d, mid + 1, hi)
       IN  IF Lt(d[l], d[r]) THEN r ELSE l

\* np.argmax in the place of np.argmin
argmax(d) == argmax_range(d, 1, Len(d))

\* np.argmin: the first index of the least entry (1-based here)
argmin(d) == argmin_range(d, 1, Len(d))

\* the return value of get_closest_point_to for idx (1-based here):
\* <<min_distance, point_x, point_y, t>>
closest_at(self, distances, idx) ==
  <<distances[idx], self.x_points[idx], self.y_points[idx],
    Div(Mul(FromInt(idx - 1), self.t_flight), FromInt(NumSamples - 1))>>

closest_in(self, distances) == closest_at(self, distances, argmin(distances))

get_closest_point_to(self, x_target, y_target) ==
  closest_in(self, distances_to(self, x_target, y_target))

(***************************************************************************)
(* ProjectileSimulator: the window, its text fields and its two handlers.  *)
(***************************************************************************)
None == <<>>

\* the text of a QLineEdit: empty, text that is no numeral, or the decimal
\* numeral of a whole number
Blank == <<>>

NotNumeral == <<"abc">>

Numeral(n) == <<"num", n>>

\* float(text): <<value>>, or <<>> when it raises ValueError
float(text) == IF Len(text) = 2 THEN <<FromInt(text[2])>> ELSE <<>>

\* format(a, ".2f"): the hundredths nearest to a, ties to even
Fmt2(a) ==
  LET m == AbsInt(a[1])
      s == SignInt(a[1])
  IN  IF m = 0 THEN 0
      ELSE IF a[2] >= 0 THEN s * m * 100 * Pow2(a[2])
      ELSE IF 0 - a[2] > 30 THEN 0
      ELSE LET d == Pow2(0 - a[2])
               n == m * 100
               q == n \div d
               r == n % d
           IN  s * (IF 2 * r > d \/ (2 * r = d /\ q % 2 = 1) THEN q + 1 ELSE q)

\* a label: its wording and the numbers formatted into it
Label(wording, numbers) == <<wording, numbers>>

\* A ProjectilePhysics object never changes after __init__, so the state
\* holds it as the triple it was built from; its fields are those of
\* ProjectilePhysics(v0, angle_deg, h0)
Ref(v0, angle_deg, h0) == <<v0, angle_deg, h0>>

Deref(ref) == ProjectilePhysics(ref[1], ref[2], ref[3])

\* TrajectoryPlot.plot_trajectory: what the axes show after the call; line
\* names the object whose x_points and y_points were passed
plot_trajectory(x_pts, y_pts, line, title, tx, ty, hit, closest) ==
  [line |-> line, title |-> title,
   launch |-> <<x_pts[1], y_pts[1]>>,
   impact |-> <<x_pts[NumSamples], Zero>>,
   target_x |-> tx, target_y |-> ty, hit |-> hit, closest |-> closest,
   annotation |-> IF tx # None /\ ty # None
                  THEN IF hit THEN "Hit!"
                       ELSE IF closest # None THEN "Closest" ELSE ""
                  ELSE ""]

\* the window after __init__, with what the last handler showed, called and
\* raised
NewWindow ==
  [physics |-> None, target_x |-> None, target_y |-> None,
   lbl_tof |-> Label("Time of Flight: -", <<>>),
   lbl_height |-> Label("Max Height: -", <<>>),
   lbl_range |-> Label("Total Range: -", <<>>),
   lbl_target |-> Label("Target: -", <<>>),
   plot |-> None, msg |-> "", calls |-> <<>>, raised |-> ""]

\* the check of line 318
launch_rejected(v0, angle, h0) ==
  Lt(v0, Zero) \/ Lt(angle, Zero) \/ Lt(FromInt(90), angle) \/ Lt(h0, Zero)

\* a handler that also forgets the targets of the last simulation
invalid_input_clearing(self) ==
  [self EXCEPT !.msg = "Invalid Input", !.target_x = None, !.target_y = None]

\* a handler that also clears the canvas
invalid_target_clearing(self) == [self EXCEPT !.msg = "Invalid Target", !.plot = None]

\* except ValueError: the warning, and return
invalid_input(self) == [self EXCEPT !.msg = "Invalid Input"]

\* except Exception: the warning, and return
invalid_target(self) == [self EXCEPT !.msg = "Invalid Target"]

\* one target field: [ok, v], v the float or None; not ok when float() or the
\* range check raises
read_coordinate(text) ==
  IF text = Blank THEN [ok |-> TRUE, v |-> None]
  ELSE IF float(text) = <<>> THEN [ok |-> FALSE, v |-> None]
  ELSE IF Lt(float(text)[1], Zero) THEN [ok |-> FALSE, v |-> None]
  ELSE [ok |-> TRUE, v |-> float(text)[1]]

\* the miss branch of the both-targets query, closest the value returned by
\* get_closest_point_to
show_closest(self, closest) ==
  <<[self EXCEPT !.calls = Append(@, "get_closest_point_to"),
                 !.lbl_target =
                   Label("Closest to Target",
                         <<Fmt2(closest[2]), Fmt2(closest[3]), Fmt2(closest[1])>>)],
    FALSE, closest>>

\* a query that searches the closest point on a hit as well
query_both_searching(self, p) ==
  <<[self EXCEPT !.calls = @ \o <<"is_target_reachable", "get_times_for_y",
                                  "get_closest_point_to">>,
                 !.lbl_target = Label("Target HIT",
                                      <<Fmt2(self.target_x), Fmt2(self.target_y)>>)],
    is_target_reachable(p, self.target_x, self.target_y)[1],
    get_closest_point_to(p, self.target_x, self.target_y)>>

\* both targets given: hit test, and the closest point on a miss; p is
\* self.physics.  <<window, hit, closest>>
query_both(self, p) ==
  LET s == [self EXCEPT !.calls = @ \o <<"is_target_reachable", "get_times_for_y">>]
  IN  IF is_target_reachable(p, self.target_x, self.target_y)[1]
      THEN <<[s EXCEPT !.lbl_target =
                Label("Target HIT", <<Fmt2(self.target_x), Fmt2(self.target_y)>>)],
             TRUE, None>>
      ELSE show_closest(s, get_closest_point_to(p, self.target_x, self.target_y))

\* only X given: self.physics.get_y_at_x, which ProjectilePhysics does not
\* define; the AttributeError leaves the handler
query_x(self) ==
  [self EXCEPT !.calls = Append(@, "get_y_at_x"), !.raised = "AttributeError"]

\* the label of the Y-only query, times the value returned by get_times_for_y
show_times(self, vx, times) ==
  IF times # <<>>
  THEN <<[self EXCEPT !.lbl_target =
            Label("At Y: X",
                  <<Fmt2(self.target_y)>> \o
                    [i \in 1..Len(times) |-> Fmt2(Mul(vx, times[i]))])],
         FALSE, None>>
  ELSE <<[self EXCEPT !.lbl_target = Label("Target Y is not reached",
                                          <<Fmt2(self.target_y)>>)],
         FALSE, None>>

\* only Y given: the X of every time at that height
query_y(self, p) ==
  show_times([self EXCEPT !.calls = Append(@, "get_times_for_y")], p.vx,
             get_times_for_y(p, self.target_y))

\* no target given
query_none(self) == <<[self EXCEPT !.lbl_target = Label("Target: -", <<>>)], FALSE, None>>

\* the info panel and the plot, from q = <<window, hit, closest>>
update_info_and_plot(q, p, v0, angle, h0) ==
  [q[1] EXCEPT !.lbl_tof = Label("Time of Flight", <<Fmt2(p.t_flight)>>),
               !.lbl_height = Label("Max Height", <<Fmt2(p.max_height)>>),
               !.lbl_range = Label("Total Range", <<Fmt2(p.range)>>),
               !.plot = <<plot_trajectory(p.x_points, p.y_points, q[1].physics[1],
                                          <<v0, angle, h0>>,
                                          q[1].target_x, q[1].target_y, q[2], q[3])>>]

\* on_simulate after self.physics is assigned, p the new object
run_query(self, p, v0, angle, h0) ==
  IF self.target_x # None /\ self.target_y # None
  THEN update_info_and_plot(query_both(self, p), p, v0, angle, h0)
  ELSE IF self.target_x # None THEN query_x(self)
  ELSE IF self.target_y # None
  THEN update_info_and_plot(query_y(self, p), p, v0, angle, h0)
  ELSE update_info_and_plot(query_none(self), p, v0, angle, h0)

\* on_simulate from line 345 on
simulate(self, v0, angle, h0) ==
  run_query([self EXCEPT !.physics = <<Ref(v0, angle, h0)>>, !.calls = <<"__init__">>],
            ProjectilePhysics(v0, angle, h0), v0, angle, h0)

\* the Simulate button, with the five fields as the user left them
on_simulate(self, speed_text, angle_text, height_text, x_text, y_text) ==
  LET v0 == float(speed_text)
      angle == float(angle_text)
      h0 == float(height_text)
      start == [self EXCEPT !.msg = "", !.calls = <<>>, !.raised = ""]
  IN  IF v0 = <<>> \/ angle = <<>> \/ h0 = <<>> THEN invalid_input(start)
      ELSE IF launch_rejected(v0[1], angle[1], h0[1]) THEN invalid_input(start)
      ELSE LET cleared == [start EXCEPT !.target_x = None, !.target_y = None]
               tx == read_coordinate(x_text)
               ty == read_coordinate(y_text)
           IN  IF ~(tx.ok /\ ty.ok) THEN invalid_target(cleared)
               ELSE simulate([cleared EXCEPT !.target_x = tx.v, !.target_y = ty.v],
                             v0[1], angle[1], h0[1])

\* the Save Graph button; filename is what the file dialog returned.
\* <<window, file written>>
on_save_graph(self, filename, file) ==
  LET start == [self EXCEPT !.msg = "", !.calls = <<>>, !.raised = ""]
  IN  IF self.physics = None THEN <<[start EXCEPT !.msg = "Nothing to Save"], file>>
      ELSE IF filename # "" THEN <<[start EXCEPT !.msg = "Saved"], <<self.plot>>>>
      ELSE <<start, file>>

(***************************************************************************)
(* What the user types and picks.                                          *)
(***************************************************************************)
\* the speed, angle and height fields: two valid launches and one launch for
\* each way of being rejected
LaunchTexts ==
  {<<Numeral(3), Numeral(45), Numeral(0)>>,
   <<Numeral(6), Numeral(45), Numeral(0)>>,
   <<NotNumeral, Numeral(45), Numeral(0)>>,
   <<Numeral(0 - 3), Numeral(45), Numeral(0)>>,
   <<Numeral(3), Numeral(0 - 30), Numeral(0)>>,
   <<Numeral(3), Numeral(120), Numeral(0)>>,
   <<Numeral(3), Numeral(45), Numeral(0 - 2)>>,
   <<Numeral(3), Numeral(45), Blank>>}

TargetXTexts == {Blank, NotNumeral, Numeral(0 - 1), Numeral(0)}

TargetYTexts == {Blank, NotNumeral, Numeral(0 - 1), Numeral(0), Numeral(MaxTarget)}

Filenames == {"", "trajectory.png"}

(***************************************************************************)
(* State.                                                                  *)
(***************************************************************************)
VARIABLES
  physics, target_x, target_y,                  \* ProjectileSimulator fields
  lbl_tof, lbl_height, lbl_range, lbl_target,   \* the result labels
  plot,                                         \* what the canvas shows
  msg,        \* the message box the last handler opened, "" for none
  calls,      \* the ProjectilePhysics methods the last handler called
  raised,     \* the exception that left the last handler, "" for none
  event,      \* the last handler run
  alive,      \* the event loop is running
  file,       \* the figure last written by save_plot
  obj, call, args, result   \* a ProjectilePhysics object and the last call on it

window_vars == <<physics, target_x, target_y, lbl_tof, lbl_height, lbl_range,
                 lbl_target, plot, msg, calls, raised, event, alive, file>>

physics_vars == <<obj, call, args, result>>

vars == <<physics, target_x, target_y, lbl_tof, lbl_height, lbl_range,
          lbl_target, plot, msg, calls, raised, event, alive, file,
          obj, call, args, result>>

\* the window as one record
Self ==
  [physics |-> physics, target_x |-> target_x, target_y |-> target_y,
   lbl_tof |-> lbl_tof, lbl_height |-> lbl_height, lbl_range |-> lbl_range,
   lbl_target |-> lbl_target, plot |-> plot,
   msg |-> msg, calls |-> calls, raised |-> raised]

WindowBecomes(w) ==
  /\ physics' = w.physics
  /\ target_x' = w.target_x
  /\ target_y' = w.target_y
  /\ lbl_tof' = w.lbl_tof
  /\ lbl_height' = w.lbl_height
  /\ lbl_range' = w.lbl_range
  /\ lbl_target' = w.lbl_target
  /\ plot' = w.plot
  /\ msg' = w.msg
  /\ calls' = w.calls
  /\ raised' = w.raised

InitWindow ==
  /\ physics = NewWindow.physics
  /\ target_x = NewWindow.target_x
  /\ target_y = NewWindow.target_y
  /\ lbl_tof = NewWindow.lbl_tof
  /\ lbl_height = NewWindow.lbl_height
  /\ lbl_range = NewWindow.lbl_range
  /\ lbl_target = NewWindow.lbl_target
  /\ plot = NewWindow.plot
  /\ msg = NewWindow.msg
  /\ calls = NewWindow.calls
  /\ raised = NewWindow.raised
  /\ event = "__init__"
  /\ alive = TRUE
  /\ file = None

NoObject == obj = None /\ call = "" /\ args = <<>> /\ result = <<>>

(***************************************************************************)
(* The window: Simulate and Save Graph clicks.                             *)
(***************************************************************************)
Init == InitWindow /\ NoObject

\* an exception that leaves a slot ends the process or is only reported,
\* depending on the PyQt5 version and on sys.excepthook
Simulate ==
  /\ alive
  /\ event' = "on_simulate"
  /\ \E l \in LaunchTexts, xt \in TargetXTexts, yt \in TargetYTexts :
       LET w == on_simulate(Self, l[1], l[2], l[3], xt, yt)
       IN  /\ WindowBecomes(w)
           /\ IF w.raised = "" THEN alive' = TRUE ELSE alive' \in BOOLEAN
  /\ UNCHANGED <<file, obj, call, args, result>>

SaveGraph ==
  /\ alive
  /\ event' = "on_save_graph"
  /\ \E filename \in Filenames :
       LET r == on_save_graph(Self, filename, file)
       IN  WindowBecomes(r[1]) /\ file' = r[2]
  /\ UNCHANGED <<alive, obj, call, args, result>>

Next == Simulate \/ SaveGraph

Spec == Init /\ [][Next]_vars

(***************************************************************************)
(* Properties of the window, checked under Spec.                           *)
(***************************************************************************)
IsNumeral(text) == Len(text) = 2

\* the launch fields l = <<speed, angle, height>> are invalid: speed < 0,
\* angle < 0, angle > 90, height < 0, or not a number
InvalidLaunch(l) ==
  \/ \E i \in 1..3 : ~IsNumeral(l[i])
  \/ l[1][2] < 0
  \/ l[2][2] < 0
  \/ l[2][2] > 90
  \/ l[3][2] < 0

\* a target field that is supplied but negative or not a number
BadCoordinate(text) == text # Blank /\ (~IsNumeral(text) \/ text[2] < 0)

\* a target field that is supplied and valid
GoodCoordinate(text) == IsNumeral(text) /\ text[2] >= 0

\* the handler left physics, the labels and the plot as they are
KeepsResults(w) ==
  /\ w.physics = physics
  /\ w.lbl_tof = lbl_tof
  /\ w.lbl_height = lbl_height
  /\ w.lbl_range = lbl_range
  /\ w.lbl_target = lbl_target
  /\ w.plot = plot

Called(w, method) == \E i \in 1..Len(w.calls) : w.calls[i] = method

\* the plot and the three flight labels of window w come from the physics
\* object it stores
ShowsStoredPhysics(w) ==
  /\ w.plot # None
  /\ w.plot[1].line = w.physics[1]
  /\ w.lbl_tof = Label("Time of Flight", <<Fmt2(Deref(w.physics[1]).t_flight)>>)
  /\ w.lbl_height = Label("Max Height", <<Fmt2(Deref(w.physics[1]).max_height)>>)
  /\ w.lbl_range = Label("Total Range", <<Fmt2(Deref(w.physics[1]).range)>>)

\* C1: an X-only query (target X supplied, target Y blank) on any valid launch
\* completes with a result: the height at X or "out of range"; it never ends
\* in an exception, and goes on to update the labels and the plot
C1_XOnlyCompletes ==
  (event = "on_simulate" /\ Called(Self, "__init__")
     /\ target_x # None /\ target_y = None) =>
    /\ raised = ""
    /\ lbl_target[1] \in {"Target at X: Y", "Target X is out of trajectory range"}
    /\ ShowsStoredPhysics(Self)

C4_HitOrClosest ==
  \A l \in LaunchTexts, xt \in TargetXTexts, yt \in TargetYTexts :
    (~InvalidLaunch(l) /\ GoodCoordinate(xt) /\ GoodCoordinate(yt)) =>
      LET w == on_simulate(Self, l[1], l[2], l[3], xt, yt)
          hit == is_target_reachable(Deref(w.physics[1]), w.target_x, w.target_y)[1]
      IN  /\ w.raised = ""
          /\ Called(w, "is_target_reachable")
          /\ Called(w, "get_closest_point_to") <=> ~hit
          /\ w.plot # None
          /\ w.plot[1].hit = hit
          /\ hit => w.plot[1].closest = None
          /\ ~hit => /\ Len(w.plot[1].closest) = 4
                      /\ w.plot[1].closest =
                           get_closest_point_to(Deref(w.physics[1]), w.target_x, w.target_y)

\* a request with both targets that missed: the plot got the closest point
C4_Witness ==
  /\ event = "on_simulate"
  /\ calls = <<"__init__", "is_target_reachable", "get_times_for_y",
               "get_closest_point_to">>
  /\ plot[1].hit = FALSE
  /\ Len(plot[1].closest) = 4

\* C10: whenever a physics object is stored, the plot and the flight-time,
\* max-height and range labels were produced from that object, and save-graph
\* exports only such a plot
C10_PlotOfStoredPhysics ==
  physics # None =>
    /\ ShowsStoredPhysics(Self)
    /\ (event = "on_save_graph" /\ msg = "Saved") =>
          file # None /\ file[1] # None /\ file[1][1].line = physics[1]

(***************************************************************************)
(* The engine alone: one ProjectilePhysics object and calls on it.         *)
(***************************************************************************)
RECURSIVE Ulps(_, _)
\* the k-th float above a
Ulps(a, k) == IF k = 0 THEN a ELSE Ulps(NextUp(a), k - 1)

\* the target heights queried: the heights of the target points, the launch
\* height, the apex, and one and nine floats above the apex
QueryHeights(p) ==
  TargetCoords \cup {p.h0, p.max_height, NextUp(p.max_height), Ulps(p.max_height, 9)}

New ==
  /\ obj = None
  /\ call' = "__init__"
  /\ \E l \in ValidLaunches :
       /\ obj' = <<Ref(l[1], l[2], l[3])>>
       /\ args' = l
  /\ result' = None
  /\ UNCHANGED window_vars

GetTimesForY(p) ==
  \E y \in QueryHeights(p) : args' = <<y>> /\ result' = get_times_for_y(p, y)

CallGetTimesForY ==
  /\ obj # None
  /\ call' = "get_times_for_y"
  /\ GetTimesForY(Deref(obj[1]))
  /\ UNCHANGED <<obj, window_vars>>

IsTargetReachable(p) ==
  \E tx \in TargetCoords, ty \in TargetCoords :
    args' = <<tx, ty>> /\ result' = is_target_reachable(p, tx, ty)

CallIsTargetReachable ==
  /\ obj # None
  /\ call' = "is_target_reachable"
  /\ IsTargetReachable(Deref(obj[1]))
  /\ UNCHANGED <<obj, window_vars>>

GetClosestPointTo(p) ==
  \E tx \in TargetCoords, ty \in TargetCoords :
    args' = <<tx, ty>> /\ result' = get_closest_point_to(p, tx, ty)

CallGetClosestPointTo ==
  /\ obj # None
  /\ call' = "get_closest_point_to"
  /\ GetClosestPointTo(Deref(obj[1]))
  /\ UNCHANGED <<obj, window_vars>>

NextPhysics ==
  New \/ CallGetTimesForY \/ CallIsTargetReachable \/ CallGetClosestPointTo

SpecPhysics == Init /\ [][NextPhysics]_vars

(***************************************************************************)
(* Properties of the engine, checked under SpecPhysics.                    *)
(***************************************************************************)
\* the object the calls are made on
Obj == Deref(obj[1])

\* t passes the filter of get_times_for_y
Kept(t) == Le(Zero, t) /\ Le(t, Obj.t_flight)

\* what get_times_for_y has to return for the roots t1, t2 when disc >= 0
KeptRoots(t1, t2) ==
  (IF Kept(t1) THEN <<t1>> ELSE <<>>) \o (IF Kept(t2) THEN <<t2>> ELSE <<>>)

\* the part of C5 that does not mention max_height: at most two times, each
\* within the flight, t1 before t2, each root kept or dropped on its own,
\* and nothing when disc < 0
TimesAsSpecified ==
  LET q == quadratic(Obj, args[1])
      disc == discriminant(q)
  IN  /\ Len(result) <= 2
      /\ \A i \in 1..Len(result) : Kept(result[i])
      /\ Lt(disc, Zero) => result = <<>>
      /\ ~Lt(disc, Zero) =>
            /\ result = KeptRoots(root_plus(q, disc), root_minus(q, disc))
            /\ Le(root_plus(q, disc), root_minus(q, disc))

\* y lies more than eight floats above the apex m
WellAbove(m, y) == Lt(Ulps(m, 8), y)

\* C5 (as amended): get_times_for_y returns at most two times, each with
\* 0 <= t <= t_flight, t1 before t2 and each root filtered independently; it
\* returns the empty sequence whenever disc < 0, which is the case for every
\* Y above max_height by more than rounding error (eight floats)
C5_TimesForY ==
  call = "get_times_for_y" =>
    /\ TimesAsSpecified
    /\ WellAbove(Obj.max_height, args[1]) =>
          Lt(discriminant(quadratic(Obj, args[1])), Zero) /\ result = <<>>

\* a rising launch queried nine floats above its apex: nothing is returned
C5_Witness ==
  /\ call = "get_times_for_y"
  /\ Obj.vy # Zero
  /\ args[1] = Ulps(Obj.max_height, 9)
  /\ result = <<>>

\* C5 as the specification states it: empty for every Y strictly greater than
\* max_height
C5_Original ==
  call = "get_times_for_y" =>
    /\ TimesAsSpecified
    /\ Lt(Obj.max_height, args[1]) =>
          Lt(discriminant(quadratic(Obj, args[1])), Zero) /\ result = <<>>

\* C6: get_times_for_y called with Y equal to max_height returns exactly one
\* time
C6_OneTimeAtApex ==
  (call = "get_times_for_y" /\ args[1] = Obj.max_height) => Len(result) = 1

\* C7 (as amended): max_height >= initial_height for every valid launch, and
\* max_height equals initial_height whenever the launch angle is 0 degrees or
\* the launch speed is 0
C7_MaxHeight ==
  obj # None =>
    /\ Le(Obj.h0, Obj.max_height)
    /\ (Obj.angle_deg = Zero \/ Obj.v0 = Zero) => Obj.max_height = Obj.h0

\* a launch at 45 degrees with speed 0: the apex is the launch height
C7_Witness ==
  /\ obj # None
  /\ Obj.v0 = Zero
  /\ Obj.angle_deg = FromInt(45)
  /\ Obj.max_height = Obj.h0

\* C7 as the specification states it: equality if and only if the angle is 0
C7_Original ==
  obj # None =>
    /\ Le(Obj.h0, Obj.max_height)
    /\ Obj.max_height = Obj.h0 <=> Obj.angle_deg = Zero

\* the distance of sample i (1-based) to the target <<x_target, y_target>>
SampleDistance(i, x_target, y_target) ==
  LET dx == Sub(Obj.x_points[i], x_target)
      dy == Sub(Obj.y_points[i], y_target)
  IN  Sqrt(Add(Mul(dx, dx), Mul(dy, dy)))

\* C8: get_closest_point_to returns a sample i in 0..499 whose distance to
\* the target is <= the distance of every other sample; the returned x, y are
\* sample i's coordinates and the returned time is i * t_flight / 499
C8_ClosestSample ==
  call = "get_closest_point_to" =>
    \E i \in 1..NumSamples :
      /\ result = <<SampleDistance(i, args[1], args[2]), Obj.x_points[i], Obj.y_points[i],
                 Div(Mul(FromInt(i - 1), Obj.t_flight), FromInt(499))>>
      /\ \A j \in 1..NumSamples : Le(result[1], SampleDistance(j, args[1], args[2]))

\* a closest sample strictly inside the flight, at a positive distance
C8_Witness ==
  /\ call = "get_closest_point_to"
  /\ Lt(Zero, result[4])
  /\ Lt(result[4], Obj.t_flight)
  /\ Lt(Zero, result[1])

\* the positions in times of the times is_target_reachable accepts
Accepted(times) ==
  {i \in 1..Len(times) :
     Lt(Abs(Sub(Mul(Obj.vx, times[i]), args[1])), HitTolerance)}

\* the result is_target_reachable has to return for the candidate times
FirstAccepted(times) ==
  IF Accepted(times) = {} THEN <<FALSE, None>>
  ELSE LET i == CHOOSE k \in Accepted(times) : \A j \in Accepted(times) : k <= j
       IN  <<TRUE, <<times[i], Mul(Obj.vx, times[i]), args[2]>>>>

\* C9: is_target_reachable returns Hit if and only if some time t returned by
\* get_times_for_y(target_y) satisfies |vx*t - target_x| < 0.01; the Hit
\* carries the first such t, with x = vx*t and y = target_y; it returns
\* (False, None) when no time is accepted
C9_FirstAcceptedTime ==
  call = "is_target_reachable" =>
    /\ result = FirstAccepted(get_times_for_y(Obj, args[2]))
    /\ result[1] <=> Accepted(get_times_for_y(Obj, args[2])) # {}

\* a vertical launch and the target at its foot: both crossing times are
\* accepted and the first is reported
C9_Witness ==
  /\ call = "is_target_reachable"
  /\ result[1]
  /\ Accepted(get_times_for_y(Obj, args[2])) = {1, 2}
  /\ get_times_for_y(Obj, args[2])[1] # get_times_for_y(Obj, args[2])[2]
  /\ result[2][1] = get_times_for_y(Obj, args[2])[1]

====
